---- MODULE Spec2Model ----
(***************************************************************************)
(* A model of makereveal.py (class MdParser): the read phase that splits   *)
(* markup files into a metadata block and slides and relocates the files   *)
(* the lines refer to, placeholder substitution, slide assembly and        *)
(* template application.                                                   *)
(*                                                                         *)
(* Texts are sequences of characters. A character is a one-character       *)
(* string; a few longer strings ("template", "slides", "theme" and the two *)
(* slide markers) stand for runs of characters that no pattern of the      *)
(* program can split or match in part, and are handled as one character.   *)
(***************************************************************************)
EXTENDS Naturals, Sequences, FiniteSets, TLC

VARIABLES
  pc,               \* position of the run: "read", "parse", "ready", "applied", "written", "failed"
  content,          \* the lines readline has returned so far, one sequence per opened file
  cnt,              \* parseFile: delimiter counter of the current file
  item,             \* parseFile: accumulator of the current segment
  properties,       \* self.properties
  _slides,          \* self._slides
  skipExtFiles,     \* self.skipExtFiles
  template,         \* text of the template file given with -t
  theme,            \* self.theme
  _html,            \* self._html
  fragment,         \* outcomes of the direct calls of getSlidesHtml so far
  error,            \* the exception that ended the run, or "none"
  output,           \* what writeOutput has written, <<>> before
  text,             \* replacePlaceholder called on its own: the text given
  mapping,          \* replacePlaceholder called on its own: the mapping given
  result,           \* replacePlaceholder called on its own: <<>> or the results of the calls so far
  _externalFiles,   \* self._externalFiles, as the sequence of its entries in insertion order
  _currentFileParsed, \* self._currentFileParsed: name of the input file being parsed, <<>> for None
  copied            \* the shutil.copy calls made so far, in order

runVars == <<pc, content, cnt, item, properties, _slides, skipExtFiles>>
tplVars == <<template, theme, _html, fragment, error, output>>
phVars  == <<text, mapping, result>>
extVars == <<_externalFiles, _currentFileParsed, copied>>
vars    == <<pc, content, cnt, item, properties, _slides, skipExtFiles,
             template, theme, _html, fragment, error, output, text, mapping, result,
             _externalFiles, _currentFileParsed, copied>>

(***************************************************************************)
(* Bounds of the model.                                                    *)
(***************************************************************************)
MaxLines  == 6   \* lines read in one run, over all input files
MaxFiles  == 2   \* input files of one run
MaxPieces == 4   \* pieces a text given to replacePlaceholder is built from
MaxSlides == 2   \* slides held when assembly is started on its own
MaxTemplatePieces == 2   \* pieces a template text is built from
MaxAssetLines == 2   \* lines read in one run that relocates files

(***************************************************************************)
(* Python values: what yaml.safe_load returns and str() is applied to.     *)
(***************************************************************************)
PyNone      == [kind |-> "none", str |-> <<>>, pairs |-> <<>>]
PyStr(s)    == [kind |-> "str",  str |-> s,    pairs |-> <<>>]
PyDict(ps)  == [kind |-> "dict", str |-> <<>>, pairs |-> ps]
Pair(k, v)  == [key |-> k, val |-> v]

HasKey(d, k) == \E i \in 1..Len(d.pairs) : d.pairs[i].key = k
Lookup(d, k) == d.pairs[CHOOSE i \in 1..Len(d.pairs) : d.pairs[i].key = k].val

RECURSIVE Concat(_)
Concat(ss) == IF ss = <<>> THEN <<>> ELSE Head(ss) \o Concat(Tail(ss))

\* repr() of a value inside a dict, str() of the value itself.
RECURSIVE pyRepr(_)
RECURSIVE pyReprPairs(_)
pyReprPairs(ps) ==
  IF ps = <<>> THEN <<>>
  ELSE <<"'">> \o ps[1].key \o <<"'", ":", " ">> \o pyRepr(ps[1].val)
       \o (IF Len(ps) > 1 THEN <<",", " ">> ELSE <<>>) \o pyReprPairs(Tail(ps))
pyRepr(v) ==
  IF v.kind = "none" THEN <<"N", "o", "n", "e">>
  ELSE IF v.kind = "str" THEN <<"'">> \o v.str \o <<"'">>
  ELSE <<"{">> \o pyReprPairs(v.pairs) \o <<"}">>
str(v) == IF v.kind = "str" THEN v.str ELSE pyRepr(v)

(***************************************************************************)
(* Text primitives: str.replace and re.sub(r'\{\{__\w+__\}\}', '', text).  *)
(***************************************************************************)
WordChars ==
  {"a", "b", "c", "d", "g", "h", "i", "k", "l", "m", "o", "p", "r", "t", "x", "y", "_",
   "0", "1", "2", "3", "4", "5", "6", "7", "8", "9", "template", "slides", "theme"}
IsWord(c) == c \in WordChars

Open  == <<"{", "{", "_", "_">>
Close == <<"_", "_", "}", "}">>

\* '{{__' + key + '__}}'
TokenNoBraces(key) == key
Token(key) == Open \o key \o Close

\* Last index of the maximal run of word characters that starts at i (i-1: none).
RECURSIVE WordRunEnd(_, _)
WordRunEnd(t, i) ==
  IF i <= Len(t) /\ IsWord(t[i]) THEN WordRunEnd(t, i + 1) ELSE i - 1

\* Last index of the match of \{\{__\w+__\}\} that starts at i, 0 when none.
\* \w+ is greedy and "_" is a word character: the run after "{{__" must hold
\* one character or more before its final "__", and "}}" must follow it.
MatchEnd(t, i) ==
  IF i + 3 <= Len(t) /\ SubSeq(t, i, i + 3) = Open
  THEN LET e == WordRunEnd(t, i + 4) IN
       IF /\ e - (i + 4) + 1 >= 3
          /\ t[e - 1] = "_" /\ t[e] = "_"
          /\ e + 2 <= Len(t) /\ t[e + 1] = "}" /\ t[e + 2] = "}"
       THEN e + 2 ELSE 0
  ELSE 0

\* re.sub(r'\{\{__\w+__\}\}', '', t): one pass, left to right, non-overlapping.
RECURSIVE SubFrom(_, _)
SubFrom(t, i) ==
  IF i > Len(t) THEN <<>>
  ELSE LET e == MatchEnd(t, i) IN
       IF e > 0 THEN SubFrom(t, e + 1) ELSE <<t[i]>> \o SubFrom(t, i + 1)
reSubPlaceholders(t) == SubFrom(t, 1)

\* t.replace(old, new) for a non-empty old: left to right, non-overlapping.
RECURSIVE ReplaceFrom(_, _, _, _)
ReplaceFrom(t, old, new, i) ==
  IF i > Len(t) THEN <<>>
  ELSE IF i + Len(old) - 1 <= Len(t) /\ SubSeq(t, i, i + Len(old) - 1) = old
       THEN new \o ReplaceFrom(t, old, new, i + Len(old))
       ELSE <<t[i]>> \o ReplaceFrom(t, old, new, i + 1)
StrReplace(t, old, new) == ReplaceFrom(t, old, new, 1)

(***************************************************************************)
(* replacePlaceholder(properties, text). The outcome is the text returned, *)
(* or the exception raised.                                                *)
(***************************************************************************)
Ok(t)      == [err |-> "none", val |-> t]
Raised(e)  == [err |-> e, val |-> <<>>]

\* for key in properties: text = text.replace('{{__' + key + '__}}', str(properties[key]))
RECURSIVE ReplaceKeys(_, _)
ReplaceKeys(ps, t) ==
  IF ps = <<>> THEN t
  ELSE ReplaceKeys(Tail(ps), StrReplace(t, Token(ps[1].key), str(ps[1].val)))

\* Iterating None raises TypeError; iterating a string yields its characters
\* and properties[key] then raises TypeError (an empty string yields none).
replacePlaceholder(props, t) ==
  IF props.kind = "dict" THEN Ok(reSubPlaceholders(ReplaceKeys(props.pairs, t)))
  ELSE IF props.kind = "str" /\ props.str = <<>> THEN Ok(reSubPlaceholders(t))
  ELSE Raised("TypeError")

(***************************************************************************)
(* The lines of the input files.                                           *)
(***************************************************************************)
Delim     == <<"-", "-", "-", "\n">>
KeyLine   == <<"a", ":", " ", "x", "\n">>
TextLine  == <<"x", "\n">>
BadLine   == <<"@", "\n">>
BlankLine == <<"\n">>
LineSet   == {Delim, KeyLine, TextLine, BadLine, BlankLine}

\* self._slideDelimiter = re.compile('^\-{3}\r?\n$')
isDelimiter(line) ==
  \/ line = <<"-", "-", "-", "\n">>
  \/ line = <<"-", "-", "-", "\r", "\n">>

(***************************************************************************)
(* yaml.safe_load on the blocks these lines make: blank lines are skipped; *)
(* no line left gives None; lines "key: value" give a dict (a repeated key *)
(* keeps its place and takes the later value), where a value is a plain    *)
(* scalar or a one-entry flow mapping "{key: value}"; plain lines fold     *)
(* into one string; everything else is a syntax error. Blank lines are     *)
(* skipped, but inside a folded string.                                    *)
(***************************************************************************)
PlainChars == WordChars \cup {" ", "-"}
IsPlain(s) ==
  /\ s # <<>> /\ s[1] \notin {" ", "-"} /\ s[Len(s)] # " "
  /\ \A i \in 1..Len(s) : s[i] \in PlainChars

\* The lines of a text, without their line ends.
RECURSIVE SplitLines(_, _)
SplitLines(t, cur) ==
  IF t = <<>> THEN (IF cur = <<>> THEN <<>> ELSE <<cur>>)
  ELSE IF Head(t) = "\n" THEN <<cur>> \o SplitLines(Tail(t), <<>>)
  ELSE SplitLines(Tail(t), Append(cur, Head(t)))

IsBlankYaml(l) == \A i \in 1..Len(l) : l[i] \in {" ", "\r"}

\* Index of the first ": " of a line, 0 when none.
ColonAt(l) ==
  LET I == {i \in 1..Len(l) - 1 : l[i] = ":" /\ l[i + 1] = " "} IN
  IF I = {} THEN 0 ELSE CHOOSE i \in I : \A j \in I : i <= j

YamlEntry(l) ==
  LET c == ColonAt(l)
      k == SubSeq(l, 1, c - 1)
      v == SubSeq(l, c + 2, Len(l))
      inner == SubSeq(v, 2, Len(v) - 1)
      ci == ColonAt(inner)
  IN IF c = 0 \/ ~IsPlain(k) THEN Raised("YAMLError")
     ELSE IF IsPlain(v) THEN Ok(Pair(k, PyStr(v)))
     ELSE IF /\ Len(v) >= 2 /\ v[1] = "{" /\ v[Len(v)] = "}" /\ ci > 0
             /\ IsPlain(SubSeq(inner, 1, ci - 1))
             /\ IsPlain(SubSeq(inner, ci + 2, Len(inner)))
          THEN Ok(Pair(k, PyDict(<<Pair(SubSeq(inner, 1, ci - 1),
                                        PyStr(SubSeq(inner, ci + 2, Len(inner))))>>)))
          ELSE Raised("YAMLError")

\* d[key] = value on a dict held as the sequence of its entries.
SetItem(ps, e) ==
  IF \E i \in 1..Len(ps) : ps[i].key = e.key
  THEN [i \in 1..Len(ps) |-> IF ps[i].key = e.key THEN e ELSE ps[i]]
  ELSE Append(ps, e)

RECURSIVE YamlDict(_, _)
YamlDict(ls, ps) ==
  IF ls = <<>> THEN Ok(PyDict(ps))
  ELSE LET e == YamlEntry(Head(ls)) IN
       IF e.err # "none" THEN Raised("YAMLError")
       ELSE YamlDict(Tail(ls), SetItem(ps, e.val))

\* A plain scalar over several lines: a line break folds into a space, a run of
\* n blank lines into n line feeds.
RECURSIVE YamlPlain(_, _, _)
YamlPlain(ls, acc, blanks) ==
  IF ls = <<>> THEN Ok(PyStr(acc))
  ELSE IF IsBlankYaml(Head(ls)) THEN YamlPlain(Tail(ls), acc, blanks + 1)
  ELSE IF ~IsPlain(Head(ls)) THEN Raised("YAMLError")
  ELSE YamlPlain(Tail(ls),
                 IF acc = <<>> THEN Head(ls)
                 ELSE acc \o (IF blanks = 0 THEN <<" ">> ELSE [i \in 1..blanks |-> "\n"])
                          \o Head(ls),
                 0)

safe_load(t) ==
  LET all == SplitLines(t, <<>>)
      ls  == SelectSeq(all, LAMBDA l : ~IsBlankYaml(l))
  IN IF ls = <<>> THEN Ok(PyNone)
     ELSE IF ColonAt(ls[1]) > 0 THEN YamlDict(ls, <<>>)
     ELSE YamlPlain(all, <<>>, 0)

(***************************************************************************)
(* parseFile and readFiles.                                                *)
(***************************************************************************)
\* self.files: the names of the input files, in the order of the -i options.
\* Consecutive files lie in different directories.
files(k) == IF k % 2 = 1 THEN <<"a", "/", "m">> ELSE <<"b", "/", "m">>

\* self.outFile, as given with -o.
outFile == <<"o", "/", "r">>

\* The regular files below the working directory before the run.
SourceTree ==
  { <<"a", "/", "m">>, <<"b", "/", "m">>,
    <<"a", "/", "p">>, <<"b", "/", "p">>,
    <<"a", "/", "d", "/", "i", ".", "g">>, <<"b", "/", "h", "/", "p">> }

\* t.rfind(c), counted from 1; 0 when c does not occur.
LastIndex(t, c) ==
  LET S == {i \in 1..Len(t) : t[i] = c} IN
  IF S = {} THEN 0 ELSE CHOOSE i \in S : \A j \in S : j <= i

\* The least index from i on whose character is in S; 0 when there is none.
FirstAt(t, i, S) ==
  LET I == {j \in i..Len(t) : t[j] \in S} IN
  IF I = {} THEN 0 ELSE CHOOSE j \in I : \A k \in I : j <= k

\* os.path.dirname: the head up to the last slash, without trailing slashes
\* unless it consists of slashes only.
RECURSIVE RStripSlash(_)
RStripSlash(t) ==
  IF t # <<>> /\ t[Len(t)] = "/" THEN RStripSlash(SubSeq(t, 1, Len(t) - 1)) ELSE t
dirname(p) ==
  LET head == SubSeq(p, 1, LastIndex(p, "/")) IN
  IF head # <<>> /\ \E i \in 1..Len(head) : head[i] # "/" THEN RStripSlash(head) ELSE head

\* os.path.basename
basename(p) == SubSeq(p, LastIndex(p, "/") + 1, Len(p))

\* os.path.splitext on a name without a slash: the extension starts at the
\* last dot, unless only dots precede that dot.
splitext(b) ==
  LET dot == LastIndex(b, ".") IN
  IF dot > 0 /\ \E f \in 1..(dot - 1) : b[f] # "."
  THEN <<SubSeq(b, 1, dot - 1), SubSeq(b, dot, Len(b))>>
  ELSE <<b, <<>>>>

\* str(n) of a natural number.
Digit == <<"0", "1", "2", "3", "4", "5", "6", "7", "8", "9">>
RECURSIVE strInt(_)
strInt(n) == IF n < 10 THEN <<Digit[n + 1]>> ELSE strInt(n \div 10) \o <<Digit[(n % 10) + 1]>>

\* os.path.isfile, on the source tree and what the run has copied so far.
isfile(p, cps) == p \in SourceTree \/ \E i \in 1..Len(cps) : cps[i].dst = p

\* The match of \[[^\]]*\]\(([^ \)]*)(\)| ) that starts at index i of t; end is
\* 0 when there is none. [^\]]* stops before the first ']', which '(' must
\* follow; the group stops before the first blank or ')'.
matchAt(t, i) ==
  LET none == [start |-> i, end |-> 0, group0 |-> <<>>, group1 |-> <<>>]
      j == FirstAt(t, i + 1, {"]"})
      k == FirstAt(t, j + 2, {" ", ")"})
  IN IF t[i] # "[" \/ j = 0 THEN none
     ELSE IF j + 1 > Len(t) \/ t[j + 1] # "(" \/ k = 0 THEN none
     ELSE [start |-> i, end |-> k,
           group0 |-> SubSeq(t, i, k), group1 |-> SubSeq(t, j + 2, k - 1)]

\* re.finditer: the matches from left to right, none overlapping another.
RECURSIVE finditerFrom(_, _)
finditerFrom(t, i) ==
  IF i > Len(t) THEN <<>>
  ELSE LET m == matchAt(t, i) IN
       IF m.end > 0 THEN <<m>> \o finditerFrom(t, m.end + 1)
       ELSE finditerFrom(t, i + 1)
finditer(t) == finditerFrom(t, 1)

\* m.group(1) in self._externalFiles.keys(), and self._externalFiles[m.group(1)]
InTable(tab, path) == \E i \in 1..Len(tab) : tab[i].key = path
TargetOf(tab, path) == tab[CHOOSE i \in 1..Len(tab) : tab[i].key = path].trg

\* A directory as a prefix of the names in it: '' stays '', else os.sep is added.
withSep(d) == IF d # <<>> THEN d \o <<"/">> ELSE d

\* Names without the number, and with the number of entries as it is.
targetNameNoIndex(path, tab) ==
  LET parts == splitext(basename(path)) IN parts[1] \o parts[2]
targetNameFromZero(path, tab) ==
  LET parts == splitext(basename(path)) IN
  parts[1] \o <<"_">> \o strInt(Len(tab)) \o parts[2]
\* The name a newly relocated file gets: root of the base name, '_', the
\* number of entries of the table plus one, extension.
targetName(path, tab) ==
  LET parts == splitext(basename(path)) IN
  parts[1] \o <<"_">> \o strInt(Len(tab) + 1) \o parts[2]

\* The loop of checkForExternalFile over the matches ms found in the line as
\* it was given: the line, the table and the copies made when it ends.
RECURSIVE relocate(_, _, _, _)
relocate(ms, line, tab, cps) ==
  IF ms = <<>> THEN [line |-> line, externalFiles |-> tab, copied |-> cps]
  ELSE LET m == Head(ms)
           basesrc == withSep(dirname(_currentFileParsed))
           basetrg == withSep(dirname(outFile))
           trg == targetName(m.group1, tab)
           replacement == StrReplace(m.group0, m.group1, trg)
       IN IF InTable(tab, m.group1)
          THEN relocate(Tail(ms), StrReplace(line, m.group1, TargetOf(tab, m.group1)), tab, cps)
          ELSE IF ~isfile(basesrc \o m.group1, cps)
          THEN relocate(Tail(ms), line, tab, cps)
          ELSE relocate(Tail(ms),
                        StrReplace(line, m.group0, replacement),
                        Append(tab, [key |-> m.group1, trg |-> trg]),
                        Append(cps, [src |-> basesrc \o m.group1, dst |-> basetrg \o trg]))

\* A checkForExternalFile that would not look at self.skipExtFiles.
checkForExternalFileAlways(line) ==
  relocate(finditer(line), line, _externalFiles, copied)
\* checkForExternalFile: the line it returns, self._externalFiles and the
\* copies made after the call.
checkForExternalFile(line) ==
  IF skipExtFiles = TRUE
  THEN [line |-> line, externalFiles |-> _externalFiles, copied |-> copied]
  ELSE relocate(finditer(line), line, _externalFiles, copied)

\* t.replace(c, '') for a character c.
RemoveChar(t, c) == SelectSeq(t, LAMBDA ch : ch # c)

Whitespace == {" ", "\t", "\n", "\r"}
RECURSIVE LStrip(_)
LStrip(t) == IF t # <<>> /\ Head(t) \in Whitespace THEN LStrip(Tail(t)) ELSE t
RECURSIVE RStrip(_)
RStrip(t) ==
  IF t # <<>> /\ t[Len(t)] \in Whitespace THEN RStrip(SubSeq(t, 1, Len(t) - 1)) ELSE t
strip(t) == LStrip(RStrip(t))

\* The branch of parseFile taken on a delimiter line: what becomes of
\* self.properties and self._slides (cnt and item are reset by the caller).
onDelimiterKeepFirst(c, it, props, sl) ==
  IF c = 1
  THEN LET r == safe_load(it) IN
       IF r.err = "none" THEN [properties |-> r.val, slides |-> sl]
       ELSE [properties |-> props, slides |-> Append(sl, it)]
  ELSE [properties |-> props, slides |-> Append(sl, it)]
onDelimiterDropFailed(c, it, props, sl) ==
  IF c = 1
  THEN LET r == safe_load(it) IN
       IF r.err = "none" THEN [properties |-> r.val, slides |-> sl]
       ELSE [properties |-> PyNone, slides |-> sl]
  ELSE IF c > 1 THEN [properties |-> props, slides |-> Append(sl, it)]
  ELSE [properties |-> props, slides |-> sl]
onDelimiterLateSlides(c, it, props, sl) ==
  IF c = 1
  THEN LET r == safe_load(it) IN
       IF r.err = "none" THEN [properties |-> r.val, slides |-> sl]
       ELSE [properties |-> props, slides |-> Append(sl, it)]
  ELSE IF c > 2 THEN [properties |-> props, slides |-> Append(sl, it)]
  ELSE [properties |-> props, slides |-> sl]
onDelimiter(c, it, props, sl) ==
  IF c = 1
  THEN LET r == safe_load(it) IN
       IF r.err = "none" THEN [properties |-> r.val, slides |-> sl]
       ELSE [properties |-> props, slides |-> Append(sl, it)]
  ELSE IF c > 1 THEN [properties |-> props, slides |-> Append(sl, it)]
  ELSE [properties |-> props, slides |-> sl]

\* The slide list after the loop of parseFile.
afterLastLine(it, sl) ==
  IF Len(strip(RemoveChar(RemoveChar(it, "\r"), "\n"))) > 0 THEN Append(sl, it) ELSE sl

LinesRead == Len(Concat(content))

\* readFiles: without an input file the run ends in dieNice.
NoInputFile ==
  /\ pc = "read" /\ content = <<>>
  /\ pc' = "failed" /\ error' = "exit"
  /\ UNCHANGED <<content, cnt, item, properties, _slides, skipExtFiles,
                 template, theme, _html, fragment, output, phVars, extVars>>

\* readFiles: the next file is opened and parseFile starts on it.
OpenFile ==
  /\ pc = "read" /\ Len(content) < MaxFiles
  /\ pc' = "parse" /\ content' = Append(content, <<>>)
  /\ _currentFileParsed' = files(Len(content) + 1)
  /\ cnt' = 0 /\ item' = <<>>
  /\ UNCHANGED <<properties, _slides, skipExtFiles, tplVars, phVars, _externalFiles, copied>>

\* readFiles: open raises on the next file and the run ends in dieNice.
OpenFails ==
  /\ pc = "read" /\ Len(content) < MaxFiles
  /\ pc' = "failed" /\ error' = "exit"
  /\ UNCHANGED <<content, cnt, item, properties, _slides, skipExtFiles,
                 template, theme, _html, fragment, output, phVars, extVars>>

\* parseFile: one turn of the loop, on the line readline returned.
parseLine(line) ==
  /\ content' = [content EXCEPT ![Len(content)] = Append(@, line)]
  /\ IF isDelimiter(line)
     THEN LET r == onDelimiter(cnt, item, properties, _slides) IN
          /\ properties' = r.properties /\ _slides' = r.slides
          /\ cnt' = cnt + 1 /\ item' = <<>>
          /\ UNCHANGED <<_externalFiles, copied>>
     ELSE LET c == checkForExternalFile(line) IN
          /\ item' = item \o c.line
          /\ _externalFiles' = c.externalFiles /\ copied' = c.copied
          /\ UNCHANGED <<properties, _slides, cnt>>
  /\ UNCHANGED <<pc, skipExtFiles, tplVars, phVars, _currentFileParsed>>

\* parseFile reads the next line of the current file.
ReadLine ==
  /\ pc = "parse" /\ LinesRead < MaxLines
  /\ \E line \in LineSet : parseLine(line)

\* parseFile: readline returns '', the loop ends, the file is closed.
EndOfFile ==
  /\ pc = "parse"
  /\ _slides' = afterLastLine(item, _slides)
  /\ pc' = "read"
  /\ UNCHANGED <<content, cnt, item, properties, skipExtFiles, tplVars, phVars, extVars>>

\* readFiles returns after the last input file.
FinishRead ==
  /\ pc = "read" /\ content # <<>>
  /\ pc' = "ready"
  /\ UNCHANGED <<content, cnt, item, properties, _slides, skipExtFiles, tplVars, phVars, extVars>>

(***************************************************************************)
(* getSlidesHtml and applyTemplate.                                        *)
(***************************************************************************)
TemplateKey == <<"template">>
SlidesToken == Token(<<"slides">>)
ThemeToken  == Token(<<"theme">>)
Sentinel    == <<"!", "#", "#", "#", "_", "_", "slides", "_", "_", "#", "#", "#", "!">>
Begin       == "<section data-markdown>\n<textarea data-template>\n"
End         == "</textarea>\n</section>\n"

\* sep.join(ss)
RECURSIVE join(_, _)
join(sep, ss) ==
  IF ss = <<>> THEN <<>>
  ELSE IF Len(ss) = 1 THEN ss[1]
  ELSE ss[1] \o sep \o join(sep, Tail(ss))

\* delimiters[0] + (delimiters[1] + delimiters[0]).join(slides) + delimiters[1]
wrapSlides(ss) == <<Begin>> \o join(<<End, Begin>>, ss) \o <<End>>

\* map applies the lambda once per slide, so self.properties['template'] is
\* evaluated only when there is a slide: on None or a string it raises
\* TypeError, on a dict without the key KeyError, which alone is caught.
getSlidesHtml(props, sl) ==
  LET with(m) == [i \in 1..Len(sl) |-> replacePlaceholder(m, sl[i])]
      texts(rs) == [i \in 1..Len(rs) |-> rs[i].val]
  IN IF sl = <<>> THEN Ok(wrapSlides(<<>>))
     ELSE IF props.kind # "dict" THEN Raised("TypeError")
     ELSE IF ~HasKey(props, TemplateKey) THEN Ok(wrapSlides(texts(with(PyDict(<<>>)))))
     ELSE LET rs == with(Lookup(props, TemplateKey)) IN
          IF \E i \in 1..Len(rs) : rs[i].err # "none" THEN Raised("TypeError")
          ELSE Ok(wrapSlides(texts(rs)))

\* applyTemplate, from the text read from the template file on: self._html when
\* it returns or raises, and the exception raised.
applyTemplate(tpl, th, props, sl) ==
  LET h1 == StrReplace(tpl, SlidesToken, Sentinel)
      h2 == StrReplace(h1, ThemeToken, th)
      r3 == replacePlaceholder(props, h2)
      g  == getSlidesHtml(props, sl)
  IN IF r3.err # "none" THEN [err |-> r3.err, html |-> h2]
     ELSE IF g.err # "none" THEN [err |-> g.err, html |-> r3.val]
     ELSE [err |-> "none", html |-> StrReplace(r3.val, Sentinel, g.val)]

\* A getSlidesHtml that would keep the fragment as the slide list.
GetSlidesHtmlInPlace ==
  /\ pc \in {"ready", "applied"} /\ fragment = <<>>
  /\ LET r == getSlidesHtml(properties, _slides) IN
       /\ fragment' = <<r>>
       /\ _slides' = IF r.err = "none" THEN <<r.val>> ELSE _slides
  /\ UNCHANGED <<pc, content, cnt, item, properties, skipExtFiles,
                 template, theme, _html, error, output, phVars, extVars>>
\* getSlidesHtml called on its own, after the read phase.
GetSlidesHtml ==
  /\ pc \in {"ready", "applied"} /\ fragment = <<>>
  /\ fragment' = <<getSlidesHtml(properties, _slides)>>
  /\ UNCHANGED <<runVars, template, theme, _html, error, output, phVars, extVars>>

\* getSlidesHtml called a second time.
GetSlidesHtmlAgain ==
  /\ pc \in {"ready", "applied"} /\ Len(fragment) = 1
  /\ fragment' = Append(fragment, getSlidesHtml(properties, _slides))
  /\ UNCHANGED <<runVars, template, theme, _html, error, output, phVars, extVars>>

\* main: worklog.applyTemplate(templateFile); an exception ends the run.
ApplyTemplate ==
  /\ pc = "ready"
  /\ LET r == applyTemplate(template, theme, properties, _slides) IN
       /\ _html' = r.html
       /\ error' = r.err
       /\ pc' = IF r.err = "none" THEN "applied" ELSE "failed"
  /\ UNCHANGED <<content, cnt, item, properties, _slides, skipExtFiles,
                 template, theme, fragment, output, phVars, extVars>>

\* writeOutput: fp.write(self.getHtml())
WriteOutput ==
  /\ pc = "applied"
  /\ output' = _html
  /\ pc' = "written"
  /\ UNCHANGED <<content, cnt, item, properties, _slides, skipExtFiles,
                 template, theme, _html, fragment, error, phVars, extVars>>

(***************************************************************************)
(* replacePlaceholder called on its own, on a mapping of strings and a     *)
(* text built from pieces.                                                 *)
(***************************************************************************)
Pieces == {Open, Close, <<"a">>, <<"-">>, Token(<<"b">>)}
Keys   == {<<"a">>, <<"b">>, <<"-">>}
Values == {<<"x">>, Token(<<"b">>)}

RECURSIVE TextsOf(_)
TextsOf(n) ==
  IF n = 0 THEN {<<>>}
  ELSE LET s == TextsOf(n - 1) IN s \cup {t \o p : t \in s, p \in Pieces}
Texts == TextsOf(MaxPieces)

\* The dicts of one or two entries (a dict holds a key once), and the empty one.
Mappings ==
  {PyDict(<<>>)}
  \cup {PyDict(<<Pair(k, PyStr(v))>>) : k \in Keys, v \in Values}
  \cup {PyDict(<<Pair(k[1], PyStr(v[1])), Pair(k[2], PyStr(v[2]))>>) :
          k \in {kk \in Keys \X Keys : kk[1] # kk[2]}, v \in Values \X Values}

InitRun ==
  /\ pc = "read" /\ content = <<>> /\ cnt = 0 /\ item = <<>>
  /\ properties = PyDict(<<>>) /\ _slides = <<>> /\ skipExtFiles = TRUE
  /\ _externalFiles = <<>> /\ _currentFileParsed = <<>> /\ copied = <<>>
Black == <<"b", "l", "a", "c", "k">>
InitTpl ==
  /\ template = Token(<<"a">>) \o SlidesToken /\ theme = Black /\ _html = <<>>
  /\ fragment = <<>> /\ error = "none" /\ output = <<>>

InitSubst ==
  /\ InitRun /\ InitTpl
  /\ text \in Texts /\ mapping \in Mappings /\ result = <<>>

Substitute ==
  /\ result = <<>>
  /\ result' = <<replacePlaceholder(mapping, text)>>
  /\ UNCHANGED <<runVars, tplVars, text, mapping, extVars>>

SubstituteAgain ==
  /\ Len(result) = 1 /\ result[1].err = "none"
  /\ result' = Append(result, replacePlaceholder(mapping, result[1].val))
  /\ UNCHANGED <<runVars, tplVars, text, mapping, extVars>>

NextSubst == Substitute \/ SubstituteAgain
SpecSubst == InitSubst /\ [][NextSubst]_vars

HasPlaceholder(t) == \E i \in 1..Len(t) : MatchEnd(t, i) > 0
IsIdentifier(k)   == k # <<>> /\ \A i \in 1..Len(k) : IsWord(k[i])

\* C6: the text replacePlaceholder returns holds no token of the shape
\* {{__<word characters>__}}.
C6_NoPlaceholderLeft ==
  \A i \in 1..Len(result) : result[i].err = "none" => ~HasPlaceholder(result[i].val)

\* The orders in which the entries of a dict can be visited.
Orders(d) ==
  LET n == Len(d.pairs) IN
  {PyDict([i \in 1..n |-> d.pairs[f[i]]]) :
     f \in {g \in [1..n -> 1..n] : \A i, j \in 1..n : g[i] = g[j] => i = j}}

\* C7: replacePlaceholder returns the same text whatever the order in which the
\* keys of the mapping (here identifiers) are substituted.
C7_OrderInsignificant ==
  (Len(result) >= 1 /\ \A i \in 1..Len(mapping.pairs) : IsIdentifier(mapping.pairs[i].key))
  => \A d \in Orders(mapping) : replacePlaceholder(d, text) = result[1]

\* C8 as stated: for every mapping, a text without a token of the placeholder
\* shape is returned unchanged, by the first call and by the second.
C8_NoOpOnResolvedText ==
  ~HasPlaceholder(text) => \A i \in 1..Len(result) : result[i] = Ok(text)

\* C8 amended: for every mapping whose keys are identifiers (one or more word
\* characters), a text without a token of the placeholder shape is returned
\* unchanged, by the first call and by the second.
C8_NoOpOnResolvedTextIdentifierKeys ==
  (/\ ~HasPlaceholder(text)
   /\ \A i \in 1..Len(mapping.pairs) : IsIdentifier(mapping.pairs[i].key))
  => \A i \in 1..Len(result) : result[i] = Ok(text)

C8_Witness ==
  /\ Len(result) = 2
  /\ ~HasPlaceholder(text)
  /\ Len(mapping.pairs) = 2
  /\ \A i \in 1..2 : IsIdentifier(mapping.pairs[i].key)
  /\ \E i \in 1..Len(text) - 3 : SubSeq(text, i, i + 3) = Open

(***************************************************************************)
(* The read phase of a run, makereveal.py -e -i file ... -t template: main  *)
(* up to the return of readFiles. SpecAssemble takes over from there.      *)
(***************************************************************************)
Init ==
  /\ InitRun /\ InitTpl
  /\ text = <<>> /\ mapping = PyDict(<<>>) /\ result = <<>>

Next == NoInputFile \/ OpenFile \/ ReadLine \/ EndOfFile \/ FinishRead
Spec == Init /\ [][Next]_vars

(***************************************************************************)
(* The segments of a file, told from the places of its delimiter lines.    *)
(***************************************************************************)
DelimAt(f)   == {i \in 1..Len(f) : isDelimiter(f[i])}
NumDelims(f) == Cardinality(DelimAt(f))
\* Place of the n-th delimiter line; 0 for n = 0, past the end for n > NumDelims.
NthDelim(f, n) ==
  IF n = 0 THEN 0
  ELSE IF n > NumDelims(f) THEN Len(f) + 1
  ELSE CHOOSE i \in DelimAt(f) : Cardinality({j \in DelimAt(f) : j <= i}) = n
\* The text between delimiter n - 1 and delimiter n.
Segment(f, n) == Concat(SubSeq(f, NthDelim(f, n - 1) + 1, NthDelim(f, n) - 1))
HasInk(t)     == \E i \in 1..Len(t) : t[i] \notin {" ", "\t", "\n", "\r"}
\* The slides of the segments after the 2nd delimiter line, in document order.
SlidesAfterSecond(f) ==
  LET k == NumDelims(f) IN
  [n \in 1..(k - 2) |-> Segment(f, n + 2)]
  \o (IF HasInk(Segment(f, k + 1)) THEN <<Segment(f, k + 1)>> ELSE <<>>)

CurrentFile == content[Len(content)]
\* A step of parseFile that reads a delimiter line.
ReadsDelimiter ==
  /\ pc = "parse" /\ content' # content
  /\ isDelimiter(content'[Len(content)][Len(content'[Len(content)])])

\* C1: once the first input file is parsed, the text between its 1st and 2nd
\* delimiter line is the metadata candidate (stored when it parses, a slide
\* when it does not) and the segments after the 2nd delimiter line, with a
\* non-blank trailing segment, are the slides that follow, in document order.
C1_SegmentsBecomeSlides ==
  (pc = "read" /\ Len(content) = 1 /\ NumDelims(content[1]) >= 2) =>
    LET f == content[1]
        meta == safe_load(Segment(f, 2))
    IN IF meta.err = "none"
       THEN properties = meta.val /\ _slides = SlidesAfterSecond(f)
       ELSE properties = PyDict(<<>>) /\ _slides = <<Segment(f, 2)>> \o SlidesAfterSecond(f)

C1_Witness ==
  /\ pc = "read"
  /\ content = <<(<<Delim, KeyLine, Delim, TextLine, Delim, TextLine>>)>>
  /\ properties = PyDict(<<Pair(<<"a">>, PyStr(<<"x">>))>>)
  /\ _slides = <<TextLine, TextLine>>

\* C2 as stated: while a file holds fewer than two delimiter lines, parseFile
\* does not touch the metadata and appends at most one slide, at the end of the
\* file, which holds all the non-delimiter lines of the file (compared trimmed).
C2_FewDelimitersWholeContent ==
  [][(pc = "parse" /\ NumDelims(content'[Len(content)]) < 2) =>
       /\ properties' = properties
       /\ IF pc' = "read"
          THEN \/ _slides' = _slides
               \/ /\ Len(_slides') = Len(_slides) + 1
                  /\ SubSeq(_slides', 1, Len(_slides)) = _slides
                  /\ strip(_slides'[Len(_slides')])
                       = strip(Concat(SelectSeq(CurrentFile, LAMBDA l : ~isDelimiter(l))))
          ELSE _slides' = _slides]_vars

\* C2 amended: while a file holds fewer than two delimiter lines, parseFile does
\* not touch the metadata and appends at most one slide, at the end of the file:
\* the lines after the delimiter line when the file has one and all its lines
\* otherwise, when they are not blank. Text before the delimiter line is dropped.
C2_FewDelimitersTrailingContent ==
  [][(pc = "parse" /\ NumDelims(content'[Len(content)]) < 2) =>
       /\ properties' = properties
       /\ IF pc' = "read"
          THEN LET rest == Segment(CurrentFile, NumDelims(CurrentFile) + 1) IN
               _slides' = IF HasInk(rest) THEN Append(_slides, rest) ELSE _slides
          ELSE _slides' = _slides]_vars

C2_Witness ==
  /\ pc = "read"
  /\ content = <<(<<TextLine, Delim, KeyLine, TextLine>>)>>
  /\ _slides = <<KeyLine \o TextLine>>
  /\ properties = PyDict(<<>>)

\* The first input file had its first delimited block stored as metadata, a mapping.
FirstFileCaptured ==
  /\ Len(content) >= 1 /\ NumDelims(content[1]) >= 2
  /\ safe_load(Segment(content[1], 2)).err = "none"
  /\ safe_load(Segment(content[1], 2)).val.kind = "dict"

\* C3: metadata captured from the first delimited block of the first input
\* file is not overwritten or reset while a later input file is parsed.
C3_MetadataOnlyFromFirstFile ==
  [][(Len(content) >= 2 /\ FirstFileCaptured) => properties' = properties]_vars

\* C4: when the metadata candidate does not parse, the delimiter line that ends
\* it appends the block to the slide list, leaves the metadata as it was,
\* raises nothing, and the scan goes on with an empty accumulator.
C4_FailedMetadataBecomesSlide ==
  [][(ReadsDelimiter /\ cnt = 1 /\ safe_load(item).err # "none") =>
       /\ _slides' = Append(_slides, item)
       /\ properties' = properties
       /\ pc' = "parse" /\ error' = "none"
       /\ cnt' = 2 /\ item' = <<>>]_vars

C4_Witness ==
  /\ pc = "read"
  /\ content = <<(<<Delim, KeyLine, Delim>>), (<<Delim, BadLine, Delim>>)>>
  /\ properties = PyDict(<<Pair(<<"a">>, PyStr(<<"x">>))>>)
  /\ _slides = <<BadLine>>

(***************************************************************************)
(* Assembly on its own: getSlidesHtml, applyTemplate and writeOutput after *)
(* a read phase that left some metadata and some slides.                   *)
(***************************************************************************)
TemplateLine == <<"template", ":", " ", "{", "a", ":", " ", "y", "}", "\n">>
MetaLines    == {KeyLine, TemplateLine, TextLine, BlankLine}
\* What self.properties can hold: {} or what safe_load made of a block.
ParsedProperties ==
  {PyDict(<<>>)}
  \cup {r.val : r \in {q \in {safe_load(Concat(b)) :
                               b \in {<<>>} \cup {<<l>> : l \in MetaLines} \cup (MetaLines \X MetaLines)} :
                       q.err = "none"}}
SlideTexts == {TextLine, Token(<<"a">>) \o <<"\n">>, <<>>}
RECURSIVE SeqsUpTo(_, _)
SeqsUpTo(S, n) ==
  IF n = 0 THEN {<<>>}
  ELSE LET s == SeqsUpTo(S, n - 1) IN s \cup {Append(q, e) : q \in s, e \in S}
TemplatePieces == {Token(<<"a">>), SlidesToken, ThemeToken, Sentinel}
Templates == {Concat(q) : q \in SeqsUpTo(TemplatePieces, MaxTemplatePieces)}

InitAssemble ==
  /\ pc = "ready" /\ content = <<>> /\ cnt = 0 /\ item = <<>> /\ skipExtFiles = TRUE
  /\ properties \in ParsedProperties
  /\ _slides \in SeqsUpTo(SlideTexts, MaxSlides)
  /\ template \in Templates
  /\ theme \in {Black, Sentinel}
  /\ _html = <<>> /\ fragment = <<>> /\ error = "none" /\ output = <<>>
  /\ text = <<>> /\ mapping = PyDict(<<>>) /\ result = <<>>
  /\ _externalFiles = <<>> /\ _currentFileParsed = <<>> /\ copied = <<>>

NextAssemble == GetSlidesHtml \/ GetSlidesHtmlAgain \/ ApplyTemplate \/ WriteOutput
SpecAssemble == InitAssemble /\ [][NextAssemble]_vars

\* The mapping the slides are to be substituted with: the one under 'template'
\* when the metadata is a mapping that holds the key, else an empty one.
SlideMapping ==
  IF properties.kind = "dict" /\ HasKey(properties, TemplateKey)
     /\ Lookup(properties, TemplateKey).kind = "dict"
  THEN Lookup(properties, TemplateKey) ELSE PyDict(<<>>)
\* Each slide between the begin and the end marker, in slide-list order.
WrappedSlides ==
  Concat([i \in 1..Len(_slides) |->
            <<Begin>> \o replacePlaceholder(SlideMapping, _slides[i]).val \o <<End>>])
Occurrences(t, p) ==
  Cardinality({i \in 1..Len(t) : i + Len(p) - 1 <= Len(t) /\ SubSeq(t, i, i + Len(p) - 1) = p})

\* C5: getSlidesHtml raises nothing, whatever value a successful parse stored as
\* metadata, and with one slide or more it returns the slides substituted with
\* the mapping under 'template', or with an empty mapping when there is none.
C5_AssemblyNeverRaises ==
  fragment # <<>> =>
    /\ fragment[1].err = "none"
    /\ _slides # <<>> => fragment[1].val = WrappedSlides

\* C9: the fragment getSlidesHtml returns is the concatenation, in slide-list
\* order, of one wrapped block per slide and nothing else: n slides give n
\* begin markers and n end markers.
C9_OneBlockPerSlide ==
  (fragment # <<>> /\ fragment[1].err = "none") =>
    /\ fragment[1].val = WrappedSlides
    /\ Occurrences(fragment[1].val, <<Begin>>) = Len(_slides)
    /\ Occurrences(fragment[1].val, <<End>>) = Len(_slides)

\* C10: the document applyTemplate builds holds the slide fragment once per
\* '{{__slides__}}' of the template and nowhere else.
C10_SlidesOnlyAtSlidesToken ==
  pc \in {"applied", "written"} =>
    Occurrences(_html, getSlidesHtml(properties, _slides).val)
      = Occurrences(template, SlidesToken)

(***************************************************************************)
(* The read phase on lines that hold references, with and without -e.      *)
(***************************************************************************)
\* [a](p): a file without extension that exists beside both input files.
RefPlain  == <<"[", "a", "]", "(", "p", ")">>
\* [p](d/i.g "t"): a file in a subdirectory of the first input file's
\* directory, with a title; the label reads like the path of RefPlain.
RefTitled == <<"[", "p", "]", "(", "d", "/", "i", ".", "g", " ", "\"", "t", "\"", ")">>
\* [a](h/p): no such file beside the first input file, one beside the second.
RefRemote == <<"[", "a", "]", "(", "h", "/", "p", ")">>
RefPieces == {RefPlain, RefTitled, RefRemote}
\* A line holds one reference, or two that follow each other.
AssetLines ==
  {r \o <<"\n">> : r \in RefPieces} \cup {r[1] \o r[2] \o <<"\n">> : r \in RefPieces \X RefPieces}

InitAssets ==
  /\ pc = "read" /\ content = <<>> /\ cnt = 0 /\ item = <<>>
  /\ properties = PyDict(<<>>) /\ _slides = <<>> /\ skipExtFiles \in BOOLEAN
  /\ _externalFiles = <<>> /\ _currentFileParsed = <<>> /\ copied = <<>>
  /\ InitTpl
  /\ text = <<>> /\ mapping = PyDict(<<>>) /\ result = <<>>

ReadAssetLine ==
  /\ pc = "parse" /\ LinesRead < MaxAssetLines
  /\ \E line \in AssetLines : parseLine(line)

NextAssets ==
  NoInputFile \/ OpenFile \/ OpenFails \/ ReadAssetLine \/ EndOfFile \/ FinishRead
SpecAssets == InitAssets /\ [][NextAssets]_vars

\* A step of parseFile that reads a line, the line read, and what the step
\* appends to the accumulator for it.
ReadsLine == pc = "parse" /\ content' # content
LineIn    == content'[Len(content)][Len(content'[Len(content)])]
LineOut   == SubSeq(item', Len(item) + 1, Len(item'))

\* The paths of the references of a text, from left to right.
PathsIn(t) == LET ms == finditer(t) IN [k \in 1..Len(ms) |-> ms[k].group1]
\* The file a path names in the file being parsed, and whether it exists.
Resolve(path) == withSep(dirname(_currentFileParsed)) \o path
Exists(path)  == Resolve(path) \in SourceTree
\* The copies made into the output directory under a target name.
CopiesTo(cps, trg) == {j \in 1..Len(cps) : cps[j].dst = withSep(dirname(outFile)) \o trg}

\* C11: with relocation enabled, every reference of a line to an existing file
\* reads, after the line is processed, the target name the table holds for its
\* path; the entries the table held before are kept as they were, a path has
\* one entry, and every entry has exactly one copy.
C11_SameTargetCopiedOnce ==
  [][(ReadsLine /\ ~skipExtFiles) =>
       LET in  == PathsIn(LineIn)
           out == PathsIn(LineOut)
           tab == _externalFiles'
       IN /\ Len(out) = Len(in)
          /\ \A k \in 1..Len(in) :
               Exists(in[k]) => (InTable(tab, in[k]) /\ out[k] = TargetOf(tab, in[k]))
          /\ SubSeq(tab, 1, Len(_externalFiles)) = _externalFiles
          /\ \A i, j \in 1..Len(tab) : tab[i].key = tab[j].key => i = j
          /\ \A i \in 1..Len(tab) : Cardinality(CopiesTo(copied', tab[i].trg)) = 1
    ]_vars

\* The text t with the path of its k-th reference replaced by ps[k], for the
\* references ms of t.
RECURSIVE WithPaths(_, _, _)
WithPaths(t, ms, ps) ==
  IF ms = <<>> THEN t
  ELSE LET n == Len(ms)
           m == ms[n]
       IN WithPaths(SubSeq(t, 1, m.end - Len(m.group1) - 1) \o ps[n] \o SubSeq(t, m.end, Len(t)),
                    SubSeq(ms, 1, n - 1), SubSeq(ps, 1, n - 1))

\* C12: with relocation enabled, the line checkForExternalFile returns differs
\* from the line it was given in nothing but the paths of the references whose
\* path the table holds: labels, titles, the other references and all other
\* text are as they were.
C12_OnlyPathsReplaced ==
  [][(ReadsLine /\ ~skipExtFiles) =>
       LET min  == finditer(LineIn)
           mout == finditer(LineOut)
           rel(k) == InTable(_externalFiles', min[k].group1)
       IN /\ Len(mout) = Len(min)
          /\ WithPaths(LineIn, min, [k \in 1..Len(min) |-> IF rel(k) THEN <<>> ELSE min[k].group1])
               = WithPaths(LineOut, mout, [k \in 1..Len(min) |-> IF rel(k) THEN <<>> ELSE mout[k].group1])
    ]_vars

\* C13: with relocation enabled, a reference whose path names no existing file
\* beside the file being parsed reads after the line is processed as before,
\* gets no table entry and no copy.
C13_MissingFileLeftAlone ==
  [][(ReadsLine /\ ~skipExtFiles) =>
       LET min  == finditer(LineIn)
           mout == finditer(LineOut)
       IN \A k \in 1..Len(min) :
            ~Exists(min[k].group1) =>
              /\ k <= Len(mout) /\ mout[k].group0 = min[k].group0
              /\ InTable(_externalFiles', min[k].group1) => InTable(_externalFiles, min[k].group1)
              /\ \A j \in (Len(copied) + 1)..Len(copied') :
                   copied'[j].src # Resolve(min[k].group1)
    ]_vars

\* C14: the i-th entry of the table, in the order the entries were added over
\* the whole run, holds as target the base name of its path without the
\* extension, '_', i in decimal, and the extension.
C14_TargetNameCountsUp ==
  \A i \in 1..Len(_externalFiles) :
    LET parts == splitext(basename(_externalFiles[i].key)) IN
    _externalFiles[i].trg = parts[1] \o <<"_">> \o strInt(i) \o parts[2]

\* d/i.g is relocated from the first input file as i_1.g, p from the second
\* as p_2.
C14_Witness ==
  /\ Len(content) = 2 /\ content[1] = <<RefTitled \o <<"\n">>>>
  /\ _externalFiles = <<[key |-> <<"d", "/", "i", ".", "g">>, trg |-> <<"i", "_", "1", ".", "g">>],
                        [key |-> <<"p">>, trg |-> <<"p", "_", "2">>]>>
  /\ copied[2].src = <<"b", "/", "p">>

\* C15: with self.skipExtFiles set, every line is appended to the accumulator
\* as it was read, and the table and the copies stay empty.
C15_DisabledLeavesLines ==
  [][skipExtFiles =>
       /\ ReadsLine => LineOut = LineIn
       /\ _externalFiles' = <<>> /\ copied' = <<>>
    ]_vars

C15_Witness ==
  /\ skipExtFiles /\ pc = "ready"
  /\ content = <<(<<RefPlain \o RefTitled \o <<"\n">>>>)>>
  /\ _slides = <<RefPlain \o RefTitled \o <<"\n">>>>
  /\ _externalFiles = <<>> /\ copied = <<>>

\* C16: when the run has ended in dieNice, nothing has been written: neither
\* the output document nor a copy of a referenced file.
C16_NoPartialOutputOnExit ==
  (pc = "failed" /\ error = "exit") => (output = <<>> /\ copied = <<>>)

\* C19: a step keeps the entries the table holds and adds at the end; no two
\* entries of the table have the same path or the same target name, and no two
\* copies are made to the same file.
C19_TableInjectiveAppendOnly ==
  [][LET tab == _externalFiles' IN
     /\ Len(tab) >= Len(_externalFiles)
     /\ SubSeq(tab, 1, Len(_externalFiles)) = _externalFiles
     /\ \A i, j \in 1..Len(tab) :
          (tab[i].key = tab[j].key \/ tab[i].trg = tab[j].trg) => i = j
     /\ \A i, j \in 1..Len(copied') : copied'[i].dst = copied'[j].dst => i = j
    ]_vars

\* p and h/p, of the same base name, are relocated as p_1 and p_2.
C19_Witness ==
  /\ _externalFiles = <<[key |-> <<"p">>, trg |-> <<"p", "_", "1">>],
                        [key |-> <<"h", "/", "p">>, trg |-> <<"p", "_", "2">>]>>
  /\ Len(copied) = 2 /\ copied[1].dst # copied[2].dst

\* C20: with relocation enabled, a reference that reads a target name of the
\* table after its line is processed, and read another path before, names a
\* copy of the file its path names beside the file being parsed.
C20_NamesCopyOfResolvedFile ==
  [][(ReadsLine /\ ~skipExtFiles) =>
       LET in  == PathsIn(LineIn)
           out == PathsIn(LineOut)
           tab == _externalFiles'
       IN Len(out) = Len(in) =>
            \A k \in 1..Len(in) :
              (out[k] # in[k] /\ \E i \in 1..Len(tab) : tab[i].trg = out[k]) =>
                \E j \in CopiesTo(copied', out[k]) : copied'[j].src = Resolve(in[k])
    ]_vars

\* C17: once the files are read, no step changes self.properties or
\* self._slides, and a second call of getSlidesHtml returns what the first
\* returned.
C17_AssemblyKeepsParsedState ==
  [][pc \notin {"read", "parse"} =>
       /\ properties' = properties /\ _slides' = _slides
       /\ Len(fragment') = 2 => fragment'[2] = fragment'[1]
    ]_vars

\* getSlidesHtml was called before and after applyTemplate, on slides that are
\* substituted with the mapping under 'template'.
C17_Witness ==
  /\ pc = "applied" /\ Len(fragment) = 2 /\ fragment[1].err = "none"
  /\ HasKey(properties, TemplateKey)
  /\ _slides = <<Token(<<"a">>) \o <<"\n">>>>
  /\ fragment[2].val = wrapSlides(<<(<<"y", "\n">>)>>)

\* C18: the delimiter line that is the first of its file leaves self.properties
\* and self._slides as they are and empties the accumulator, whatever was read
\* before it in the file.
C18_TextBeforeFirstDelimiterDropped ==
  [][(ReadsDelimiter /\ NumDelims(CurrentFile) = 0) =>
       /\ cnt = 0
       /\ properties' = properties /\ _slides' = _slides
       /\ item' = <<>>
    ]_vars

\* The line before the delimiter of the second file is neither metadata nor a
\* slide.
C18_Witness ==
  /\ pc = "read"
  /\ content = <<(<<Delim, KeyLine, Delim>>), (<<TextLine, Delim>>)>>
  /\ properties = PyDict(<<Pair(<<"a">>, PyStr(<<"x">>))>>)
  /\ _slides = <<>>

====
